---------------------------- MODULE Spec2Model ----------------------------
(***************************************************************************)
(* A model of nex-viewer's NEXParser (src/src/parser.js) and of the Stream *)
(* reads it relies on (src/src/stream.js).                                 *)
(*                                                                         *)
(* A captured frame is a sequence of bytes.  NEXParser.handlePacket is     *)
(* modelled step by step: ReceiveFrame (parseUDPPacket, direction          *)
(* inference, registry lookup), then per iteration of the framing loop     *)
(* Carve, Register, Handle, Promote and EmitPacket.  The program is        *)
(* single-threaded, so exactly one of these is enabled at a time.          *)
(***************************************************************************)
EXTENDS Integers, Sequences, FiniteSets, TLC

(***************************************************************************)
(* Bounds of the model.                                                    *)
(***************************************************************************)
\* Number of frames the capture source delivers.
MaxFrames == 3

(***************************************************************************)
(* Byte constants of parser.js.                                            *)
(***************************************************************************)
MAGIC_SERVERBOUND == <<175, 161>>      \* 0xAF 0xA1
MAGIC_CLIENTBOUND == <<161, 175>>      \* 0xA1 0xAF
MAGIC_V1 == <<234, 208>>               \* 0xEA 0xD0
XID_MAGIC == <<129, 1, 0>>             \* 0x81 0x01 0x00

Min(a, b) == IF a < b THEN a ELSE b
Max(a, b) == IF a < b THEN b ELSE a

(***************************************************************************)
(* Buffers (node Buffer) and the Stream cursor.  Offsets are 0-based as in *)
(* the source; a TLA+ sequence is 1-based.                                 *)
(***************************************************************************)
\* Buffer.subarray(start, end): negative indices count from the end, both
\* are clamped to the buffer, and an empty buffer results when end <= start.
subarray(buf, start, end) ==
    LET n == Len(buf)
        s == IF start < 0 THEN Max(n + start, 0) ELSE Min(start, n)
        e == IF end < 0 THEN Max(n + end, 0) ELSE Min(end, n)
    IN  IF e <= s THEN << >> ELSE SubSeq(buf, s + 1, e)

\* Stream.read(len) / Stream.readBytes(len): the bytes read.  The cursor
\* moves by len whatever was read (see skip).
read(buf, offset, len) == subarray(buf, offset, offset + len)

\* Stream.skip(value) and the cursor movement of Stream.read.
skip(offset, value) == offset + value

\* Stream.hasDataLeft()
hasDataLeft(buf, offset) == offset < Len(buf)

\* Stream.remaining()
remaining(buf, offset) == Len(buf) - offset

\* Buffer.readUInt8 / readUInt16LE / readUInt16BE / readUInt32BE raise a
\* RangeError when the buffer they are called on is shorter than the integer.
canReadInt(b, width) == Len(b) >= width

readUInt8(b) == b[1]
readUInt16LE(b) == b[1] + 256 * b[2]
readUInt16BE(b) == 256 * b[1] + b[2]
\* An unsigned 32-bit integer is held as its two 16-bit halves (the model
\* checker's integers are signed 32-bit).
readUInt32BE(b) == [hi |-> 256 * b[1] + b[2], lo |-> 256 * b[3] + b[4]]

(***************************************************************************)
(* Frame Extractor.                                                        *)
(***************************************************************************)
\* int2ip: the dotted-decimal string "a.b.c.d" as the tuple of its octets.
\* int >>> 24, int >> 16 & 255, int >> 8 & 255, int & 255.
int2ip(int) ==
    << int.hi \div 256, int.hi % 256, int.lo \div 256, int.lo % 256 >>

\* The private-ip package on an IPv4 dotted-decimal string.
isPrivateIP(ip) ==
    \/ ip[1] = 10
    \/ ip[1] = 127
    \/ ip[1] = 172 /\ ip[2] >= 16 /\ ip[2] <= 31
    \/ ip[1] = 192 /\ ip[2] = 168
    \/ ip[1] = 169 /\ ip[2] = 254

NoUdp == [kind |-> "none"]
ThrewUdp == [kind |-> "threw"]

\* The header reads of parseUDPPacket, after its XID check: ThrewUdp when a
\* fixed-width read runs past the end of the frame (RangeError), NoUdp for a
\* frame that is not UDP.
parseHeaders(frame) ==
    LET o1 == skip(0, 14)                       \* Ethernet header
        o2 == skip(o1, 9)                       \* until protocol
        protocolB == read(frame, o2, 1)
        o3 == skip(skip(o2, 1), 2)              \* protocol, header checksum
        sourceB == read(frame, o3, 4)
        destinationB == read(frame, skip(o3, 4), 4)
        o4 == skip(o3, 8)
        sourcePortB == read(frame, o4, 2)
        destinationPortB == read(frame, skip(o4, 2), 2)
        lengthB == read(frame, skip(o4, 4), 2)
        o5 == skip(skip(o4, 6), 2)              \* UDP checksum
    IN  IF ~canReadInt(protocolB, 1) THEN ThrewUdp
        ELSE IF readUInt8(protocolB) # 17 THEN NoUdp
        ELSE IF ~canReadInt(sourceB, 4) \/ ~canReadInt(destinationB, 4)
                \/ ~canReadInt(sourcePortB, 2) \/ ~canReadInt(destinationPortB, 2)
                \/ ~canReadInt(lengthB, 2) THEN ThrewUdp
        ELSE [kind |-> "udp",
              source |-> int2ip(readUInt32BE(sourceB)),
              destination |-> int2ip(readUInt32BE(destinationB)),
              sourcePort |-> readUInt16BE(sourcePortB),
              destinationPort |-> readUInt16BE(destinationPortB),
              payload |-> read(frame, o5, readUInt16BE(lengthB) - 8)]

\* parseUDPPacket without its XID check.
parseUDPPacket_noXID(frame) == parseHeaders(frame)

\* NEXParser.parseUDPPacket(frame): NoUdp for "not applicable" (undefined).
parseUDPPacket(frame) ==
    IF subarray(frame, 17, 20) = XID_MAGIC THEN NoUdp
    ELSE parseHeaders(frame)

\* `${ip}:${port}`
addr(ip, port) == [ip |-> ip, port |-> port]

\* Direction inference that tests the destination address instead.
resolve_byDestination(udp) ==
    IF ~isPrivateIP(udp.destination)
    THEN [discriminator |-> addr(udp.destination, udp.destinationPort),
          clientAddress |-> addr(udp.source, udp.sourcePort),
          serverAddress |-> addr(udp.destination, udp.destinationPort)]
    ELSE [discriminator |-> addr(udp.source, udp.sourcePort),
          clientAddress |-> addr(udp.destination, udp.destinationPort),
          serverAddress |-> addr(udp.source, udp.sourcePort)]

\* Direction inference of handlePacket.
resolve(udp) ==
    IF isPrivateIP(udp.source)
    THEN [discriminator |-> addr(udp.destination, udp.destinationPort),
          clientAddress |-> addr(udp.source, udp.sourcePort),
          serverAddress |-> addr(udp.destination, udp.destinationPort)]
    ELSE [discriminator |-> addr(udp.source, udp.sourcePort),
          clientAddress |-> addr(udp.destination, udp.destinationPort),
          serverAddress |-> addr(udp.source, udp.sourcePort)]

(***************************************************************************)
(* Packet Framer: one iteration of the while loop of handlePacket up to    *)
(* the construction of the packet.                                         *)
(***************************************************************************)
isMarker(b) == b = MAGIC_SERVERBOUND \/ b = MAGIC_CLIENTBOUND

\* The virtual-port check left out: any two bytes pass.
validV1Marker_unchecked(source_destination) == TRUE

\* The check of the two bytes that follow the v1 sizes.
validV1Marker(source_destination) == isMarker(source_destination)

\* A span of no bytes, which leaves the stream where the packet starts.
v1SpanLength_empty(packetSpecificDataLength, payloadSize) == 0

\* The span length with the signature forgotten.
v1SpanLength_noSignature(packetSpecificDataLength, payloadSize) ==
    2 + 12 + packetSpecificDataLength + payloadSize

\* "PRUDPv1 size = magic + header + signature + packetSpecificData + payload"
v1SpanLength(packetSpecificDataLength, payloadSize) ==
    2 + 12 + 16 + packetSpecificDataLength + payloadSize

\* kind: "done" (no data left), "v1", "v0", "reject" (readRest; return) or
\* "threw" (a RangeError of readUInt8 / readUInt16LE).  span is the buffer
\* handed to the decoder, start its offset in the payload, next the stream
\* offset after the iteration.
carve(payload, offset) ==
    LET magic == read(payload, offset, 2)
        o1 == skip(offset, 2)
        o2 == skip(o1, 1)
        psdlB == read(payload, o2, 1)
        o3 == skip(o2, 1)
        sizeB == read(payload, o3, 2)
        o4 == skip(o3, 2)
        source_destination == read(payload, o4, 2)
        o5 == skip(o4, 2)
        o6 == skip(o5, -8)
        \* stream.readRest(); return
        Rej(o) == [kind |-> "reject", span |-> << >>, start |-> 0,
                   next |-> skip(o, remaining(payload, o))]
        Thr == [kind |-> "threw", span |-> << >>, start |-> 0, next |-> offset]
    IN  IF ~hasDataLeft(payload, offset)
        THEN [kind |-> "done", span |-> << >>, start |-> 0, next |-> offset]
        ELSE IF magic = MAGIC_V1
        THEN IF ~canReadInt(psdlB, 1) \/ ~canReadInt(sizeB, 2) THEN Thr
             ELSE IF validV1Marker(source_destination)
             THEN LET len == v1SpanLength(readUInt8(psdlB), readUInt16LE(sizeB))
                  IN  [kind |-> "v1", span |-> read(payload, o6, len),
                       start |-> o6, next |-> skip(o6, len)]
             ELSE Rej(o5)
        ELSE IF isMarker(magic)
        THEN [kind |-> "v0", span |-> payload, start |-> 0, next |-> o1]
        ELSE Rej(o1)


(***************************************************************************)
(* Packets and connections.  packetv0.js, packetv1.js and connection.js    *)
(* are not among the sources; they are modelled from the specification.    *)
(***************************************************************************)
SYN_PACKET == "SYN"
DATA_PACKET == "DATA"
OTHER_PACKET == "OTHER"

\* The packet type a decoded span carries: the low 4 bits of the type/flags
\* field, which follows the two virtual ports.
packetType(span, typeOffset) ==
    IF Len(span) <= typeOffset THEN OTHER_PACKET
    ELSE LET t == span[typeOffset + 1] % 16
         IN  IF t = 0 THEN SYN_PACKET ELSE IF t = 2 THEN DATA_PACKET ELSE OTHER_PACKET

\* The fragment id of a decoded span: the byte at fragmentOffset.
fragmentIdOf(span, fragmentOffset) ==
    IF Len(span) <= fragmentOffset THEN 0 ELSE span[fragmentOffset + 1]

\* A decoded packet: its version, the span it was decoded from (offset in the
\* UDP payload and length), its type, its direction, its fragment id, the
\* size of its payload, and its rmcMessage: 0 when none is attached, else
\* the number of packets whose payloads the message was assembled from.
NoPacket == [version |-> -1, start |-> 0, length |-> 0, type |-> OTHER_PACKET,
             toServer |-> FALSE, fragmentId |-> 0, payloadSize |-> 0,
             message |-> 0]

\* new PacketV1(connection, payload) / new PacketV0(connection, payload)
newPacket(c) ==
    IF c.kind = "v1"
    THEN [version |-> 1, start |-> c.start, length |-> Len(c.span),
          type |-> packetType(c.span, 8),
          toServer |-> read(c.span, 6, 2) = MAGIC_SERVERBOUND,
          fragmentId |-> fragmentIdOf(c.span, 13),
          payloadSize |-> IF canReadInt(read(c.span, 4, 2), 2)
                          THEN readUInt16LE(read(c.span, 4, 2)) ELSE 0,
          message |-> 0]
    ELSE [version |-> 0, start |-> c.start, length |-> Len(c.span),
          type |-> packetType(c.span, 2),
          toServer |-> read(c.span, 0, 2) = MAGIC_SERVERBOUND,
          fragmentId |-> fragmentIdOf(c.span, 11),
          payloadSize |-> Max(Len(c.span) - 13, 0),
          message |-> 0]

NoAddr == [ip |-> << >>, port |-> -1]
NoURL == [address |-> << >>, port |-> -1]

\* A stream-cipher state: the key it was seeded from and whether keystream
\* has been consumed since.
seeded(key) == [key |-> key, used |-> FALSE]

DefaultKey == "default"

\* new Connection(discriminator)
newConnectionRecord(discriminator) ==
    [discriminator |-> discriminator,
     clientAddress |-> NoAddr,
     serverAddress |-> NoAddr,
     accessKey |-> "none",
     accessKeySum |-> "none",
     signatureKey |-> "none",
     sessionKey |-> "none",
     prudpVersion |-> -1,
     title |-> "none",
     isSecureServer |-> FALSE,
     checkForSecureServer |-> FALSE,
     secureServerStationURL |-> NoURL,
     rc4ClientState |-> seeded(DefaultKey),
     rc4ServerState |-> seeded(DefaultKey),
     clientFragments |-> 0,
     serverFragments |-> 0]

\* Connection.setRC4Key(key): both cipher states are rebuilt from the key.
setRC4Key(conn, key) ==
    [conn EXCEPT !.rc4ClientState = seeded(key), !.rc4ServerState = seeded(key)]

\* Connection.handlePacket(packet).  What a packet does to its connection
\* depends on the decrypted application message, which is not modelled; eff
\* is the outcome:
\*   "none"  nothing but the version bookkeeping,
\*   "fragment"  the payload is buffered with the pending fragments of the
\*           packet's direction,
\*   "data"  the pending fragments and this payload make a message, which
\*           was decrypted (keystream of the direction consumed),
\*   "auth"  a successful authentication response was decrypted: the key
\*           material and the station URL url are learnt, and
\*           checkForSecureServer is set.
connectionHandlePacket(conn, packet, eff, url) ==
    LET c0 == IF conn.prudpVersion = -1
              THEN [conn EXCEPT !.prudpVersion = packet.version] ELSE conn
        c1 == IF packet.toServer
              THEN [c0 EXCEPT !.rc4ClientState.used = TRUE,
                              !.clientFragments = 0]
              ELSE [c0 EXCEPT !.rc4ServerState.used = TRUE,
                              !.serverFragments = 0]
    IN  IF eff = "none" THEN c0
        ELSE IF eff = "fragment"
        THEN IF packet.toServer
             THEN [c0 EXCEPT !.clientFragments = @ + 1]
             ELSE [c0 EXCEPT !.serverFragments = @ + 1]
        ELSE IF eff = "data" THEN c1
        ELSE [c1 EXCEPT !.accessKey = "ak", !.accessKeySum = "aks",
                        !.signatureKey = "sigk", !.sessionKey = "sk",
                        !.title = "title",
                        !.secureServerStationURL = url,
                        !.checkForSecureServer = TRUE]

\* A message attached to every packet that carries application data, made
\* of that packet's payload alone.
rmcMessageOf_perPacket(conn, packet, eff) ==
    IF eff \in {"data", "auth", "fragment"} THEN 1 ELSE 0

\* packet.rmcMessage as Connection.handlePacket leaves it: a message is
\* attached to the packet that completes it, made of the pending fragments
\* of the packet's direction and the packet's own payload.
rmcMessageOf(conn, packet, eff) ==
    IF eff \in {"data", "auth"}
    THEN 1 + (IF packet.toServer THEN conn.clientFragments
                                 ELSE conn.serverFragments)
    ELSE 0

(***************************************************************************)
(* The frames of the capture.                                              *)
(***************************************************************************)
\* The endpoints of the captured flows.
AuthServer == [ip |-> <<52, 38, 81, 235>>, port |-> 60000]
SecureServer == [ip |-> <<52, 38, 81, 236>>, port |-> 60001]
LanServer == [ip |-> <<10, 0, 0, 5>>, port |-> 60000]
Client == [ip |-> <<192, 168, 0, 13>>, port |-> 50000]

Zeros(n) == [i \in 1..n |-> 0]
u16be(n) == << n \div 256, n % 256 >>
u16le(n) == << n % 256, n \div 256 >>

\* An Ethernet + IPv4 + UDP frame: b17 are the bytes at offsets 17..19 (the
\* low byte of the IP total length and the identification), udpLength the
\* UDP length field.
mkFrame(b17, protocol, src, dst, udpLength, payload) ==
    Zeros(14) \o << 69, 0, 0 >> \o b17 \o << 0, 0, 64, protocol, 0, 0 >>
      \o src.ip \o dst.ip \o u16be(src.port) \o u16be(dst.port)
      \o u16be(udpLength) \o << 0, 0 >> \o payload

udpFrame(src, dst, payload) ==
    mkFrame(<< 0, 0, 0 >>, 17, src, dst, Len(payload) + 8, payload)

\* A PRUDPv1 packet: magic, 12-byte header, 16-byte signature,
\* packet-specific data, payload.
v1Packet(marker, type, psdl, size) ==
    MAGIC_V1 \o << 1, psdl >> \o u16le(size) \o marker
      \o << type, 0, 0, 0, 0, 0 >> \o Zeros(16) \o Zeros(psdl) \o Zeros(size)

synC == v1Packet(MAGIC_SERVERBOUND, 0, 0, 0)
dataC == v1Packet(MAGIC_SERVERBOUND, 2, 1, 2)
dataS == v1Packet(MAGIC_CLIENTBOUND, 2, 1, 2)
v0C == MAGIC_SERVERBOUND \o << 0, 0, 0, 0, 0, 0 >>
garbage == << 0, 0, 7 >>

\* Frames of the life of connections: each flow, with a handshake packet, a
\* data packet or foreign bytes.
LifecycleFrames ==
    << udpFrame(Client, AuthServer, synC),
       udpFrame(Client, AuthServer, dataC),
       udpFrame(Client, AuthServer, garbage),
       udpFrame(AuthServer, Client, dataS),
       udpFrame(Client, SecureServer, synC),
       udpFrame(Client, SecureServer, dataC),
       udpFrame(Client, LanServer, dataC),
       udpFrame(LanServer, Client, dataS) >>

\* Frames of one flow that exercise the frame extractor and the framer.
FramingPayloads ==
    << synC, dataC,
      synC \o dataC,                         \* two packets
      synC \o garbage,                       \* a packet, then foreign bytes
      synC \o << 234, 208 >>,                \* a packet, then a cut v1 header
      synC \o << 234 >>,
      << 234, 208, 1 >>,                     \* v1 magic, cut header
      << 234, 208, 1, 0, 0, 0, 0, 0 >> \o Zeros(22),   \* v1 magic, no marker
      SubSeq(dataC, 1, 31),                  \* shorter than its header says
      v0C,
      MAGIC_SERVERBOUND \o MAGIC_CLIENTBOUND \o << 0, 0 >>,
      v0C \o synC,
      garbage,
      << >> >>

FramingFrames ==
    [i \in 1..Len(FramingPayloads) |-> udpFrame(Client, AuthServer, FramingPayloads[i])]
    \o << mkFrame(XID_MAGIC, 17, Client, AuthServer, 38, synC),
           mkFrame(<< 0, 0, 0 >>, 6, Client, AuthServer, 38, synC),
           mkFrame(<< 0, 0, 0 >>, 17, Client, AuthServer, 38, synC \o garbage),
           mkFrame(<< 0, 0, 0 >>, 17, Client, AuthServer, 4, synC),
           SubSeq(udpFrame(Client, AuthServer, synC), 1, 10),
           SubSeq(udpFrame(Client, AuthServer, synC), 1, 30),
           SubSeq(mkFrame(XID_MAGIC, 17, Client, AuthServer, 38, synC), 1, 21) >>

\* A DATA packet that carries the fragment with id fragmentId of a message.
v1Fragment(marker, fragmentId) ==
    [v1Packet(marker, 2, 1, 2) EXCEPT ![14] = fragmentId]

\* Frames of one flow whose messages are split over several packets.
FragmentFrames ==
    << udpFrame(Client, AuthServer, v1Fragment(MAGIC_SERVERBOUND, 2)),
       udpFrame(Client, AuthServer, v1Fragment(MAGIC_SERVERBOUND, 1)),
       udpFrame(Client, AuthServer, v1Fragment(MAGIC_SERVERBOUND, 0)),
       udpFrame(AuthServer, Client, v1Fragment(MAGIC_CLIENTBOUND, 1)),
       udpFrame(AuthServer, Client, v1Fragment(MAGIC_CLIENTBOUND, 0)) >>

\* The frames a capture is made of; a run is any sequence of MaxFrames of them.
Capture == LifecycleFrames \o FramingFrames \o FragmentFrames

LifecycleFrameNumbers == 1..Len(LifecycleFrames)
FramingFrameNumbers ==
    (Len(LifecycleFrames) + 1)..(Len(LifecycleFrames) + Len(FramingFrames))
FragmentFrameNumbers ==
    (Len(LifecycleFrames) + Len(FramingFrames) + 1)..Len(Capture)


(***************************************************************************)
(* The parser's state.                                                     *)
(***************************************************************************)
(***************************************************************************)
(* The Service Item protocol: its method table and its dispatch.           *)
(***************************************************************************)
\* The method ids a call is made with: 0 .. MaxMethodId.
MaxMethodId == 25

\* ServiceItem.MethodNames, the inverse of ServiceItem.Methods: ids 0x01 to
\* 0x16 in order.
MethodNames ==
    << "GetEnvironment", "HttpGetRequest", "HttpGetResponse",
       "PurchaseServiceItemRequest", "PurchaseServiceItemResponse",
       "ListServiceItemRequest", "ListServiceItemResponse",
       "GetBalanceRequest", "GetBalanceResponse",
       "GetPrepurchaseInfoRequest", "GetPrepurchaseInfoResponse",
       "GetServiceItemRightRequest", "GetServiceItemRightResponse",
       "GetPurchaseHistoryRequest", "GetPurchaseHistoryResponse",
       "PostRightBinaryByAccount", "UseServiceItemByAccountRequest",
       "UseServiceItemByAccountResponse", "AcquireServiceItemByAccount",
       "GetSupportId", "GetLawMessageRequest", "GetLawMessageResponse" >>

\* ServiceItem.Handlers: the static method registered under each id, by name.
Handlers == [m \in 1..Len(MethodNames) |-> MethodNames[m]]

\* A handler that decodes every message as a response.
handle_asResponse(handler, isRequest) ==
    [module |-> "Responses", class |-> handler \o "Response"]

\* The body shared by the static methods: ServiceItem.X(rmcMessage, stream)
\* is new Requests.XRequest(stream) for a request and
\* new Responses.XResponse(stream) otherwise.
handle(handler, isRequest) ==
    IF isRequest
    THEN [module |-> "Requests", class |-> handler \o "Request"]
    ELSE [module |-> "Responses", class |-> handler \o "Response"]

\* packet.rmcData before anything has set it.
NoData == [body |-> [module |-> "none", class |-> "none"]]

NoDispatch ==
    [pc |-> "idle",
     packet |-> [rmcMessage |-> [methodId |-> 0, isRequest |-> FALSE],
                 rmcData |-> NoData],
     console |-> << >>]

VARIABLES
    connections,    \* this.connections: the registry, a list of object ids
    heap,           \* the Connection objects, by object id
    events,         \* the notifications emitted so far, in order
    pc,             \* "idle", the position inside handlePacket, "threw" or "ended"
    nframes,        \* frames delivered by the capture source
    frame,          \* the frame delivered last: its number in Capture, 0 at first
    udpPacket,      \* handlePacket's udpPacket, but for its payload
    offset,         \* stream._offset (stream._buffer is the payload)
    discriminator,  \* handlePacket's discriminator
    connection,     \* handlePacket's connection (an object id)
    newConnection,  \* handlePacket's newConnection
    packet,         \* handlePacket's packet
    dispatch        \* a call of ServiceItem.handlePacket: its position, its
                    \* packet argument and the lines written to the console

vars == << connections, heap, events, pc, nframes, frame, udpPacket, offset,
           discriminator, connection, newConnection, packet, dispatch >>

locals == << udpPacket, offset, discriminator, connection, newConnection, packet >>

Init ==
    /\ connections = << >>
    /\ heap = << >>
    /\ events = << >>
    /\ pc = "idle"
    /\ nframes = 0
    /\ frame = 0
    /\ udpPacket = NoUdp
    /\ offset = 0
    /\ discriminator = NoAddr
    /\ connection = 0
    /\ newConnection = FALSE
    /\ packet = NoPacket
    /\ dispatch = NoDispatch

\* udpPacket.payload, which is stream._buffer: the frame does not change
\* while it is processed, so the payload is read off the frame each time.
payload == parseUDPPacket(Capture[frame]).payload

registered(id) == \E i \in 1..Len(connections) : connections[i] = id

\* The lookup taking the oldest match (Array.prototype.find).
findLast_first(conns, objs, disc) ==
    LET hits == {i \in 1..Len(conns) : objs[conns[i]].discriminator = disc}
    IN  IF hits = {} THEN 0
        ELSE conns[CHOOSE i \in hits : \A j \in hits : i <= j]

\* this.connections.findLast(c => c.discriminator === discriminator): the
\* object id found, 0 for undefined.
findLast(conns, objs, disc) ==
    LET hits == {i \in 1..Len(conns) : objs[conns[i]].discriminator = disc}
    IN  IF hits = {} THEN 0
        ELSE conns[CHOOSE i \in hits : \A j \in hits : j <= i]

connectionEvent(id) ==
    [type |-> "connection", connection |-> id, version |-> -1, start |-> 0,
     length |-> 0, frame |-> nframes]

packetEvent(id, pkt) ==
    [type |-> "packet", connection |-> id, version |-> pkt.version,
     start |-> pkt.start, length |-> pkt.length, frame |-> nframes,
     toServer |-> pkt.toServer, fragmentId |-> pkt.fragmentId,
     message |-> pkt.message]

\* handlePacket returns: its locals die, and with them a Connection that was
\* created for this frame and never registered.
Return ==
    /\ pc' = "idle"
    /\ udpPacket' = NoUdp
    /\ offset' = 0
    /\ discriminator' = NoAddr
    /\ connection' = 0
    /\ newConnection' = FALSE
    /\ packet' = NoPacket
    /\ heap' = IF connection # 0 /\ ~registered(connection)
               THEN SubSeq(heap, 1, Len(heap) - 1) ELSE heap

\* An exception leaves handlePacket: nothing catches it, the run ends.
Throw ==
    /\ pc' = "threw"
    /\ UNCHANGED << heap, locals >>

\* The capture source delivers the frame Capture[n]: handlePacket up to the
\* framing loop.
ReceiveFrame(n) ==
    /\ pc = "idle"
    /\ nframes < MaxFrames
    /\ nframes' = nframes + 1
    /\ frame' = n
    /\ UNCHANGED << connections, events >>
    /\ UNCHANGED dispatch
    /\ LET udp == parseUDPPacket(Capture[n])
           r == resolve(udp)
           found == findLast(connections, heap, r.discriminator)
       IN  IF udp.kind = "threw" THEN Throw
           ELSE IF udp.kind = "none" THEN Return
           ELSE /\ pc' = "loop"
                /\ udpPacket' = [kind |-> udp.kind,
                                 source |-> udp.source,
                                 destination |-> udp.destination,
                                 sourcePort |-> udp.sourcePort,
                                 destinationPort |-> udp.destinationPort]
                /\ offset' = 0
                /\ discriminator' = r.discriminator
                /\ packet' = NoPacket
                /\ IF found = 0
                   THEN /\ heap' = Append(heap,
                                 [newConnectionRecord(r.discriminator) EXCEPT
                                    !.clientAddress = r.clientAddress,
                                    !.serverAddress = r.serverAddress])
                        /\ connection' = Len(heap) + 1
                        /\ newConnection' = TRUE
                   ELSE /\ heap' = heap
                        /\ connection' = found
                        /\ newConnection' = FALSE

\* The loop test and the framing of the next packet.
Carve ==
    /\ pc = "loop"
    /\ UNCHANGED << connections, events, nframes, frame >>
    /\ UNCHANGED dispatch
    /\ LET c == carve(payload, offset)
       IN  IF c.kind = "threw" THEN Throw
           ELSE IF c.kind \in {"done", "reject"} THEN Return
           ELSE /\ pc' = "register"
                /\ packet' = newPacket(c)
                /\ offset' = c.next
                /\ UNCHANGED << heap, udpPacket, discriminator, connection,
                                newConnection >>

\* An insertion at the head of the registry (Array.prototype.unshift).
pushed_front(conns, id) == <<id>> \o conns

\* this.connections.push(id)
pushed(conns, id) == Append(conns, id)

\* "Add connections after packet validation"
Register ==
    /\ pc = "register"
    /\ pc' = "handle"
    /\ IF newConnection
       THEN /\ connections' = pushed(connections, connection)
            /\ events' = Append(events, connectionEvent(connection))
       ELSE UNCHANGED << connections, events >>
    /\ UNCHANGED << heap, nframes, frame, locals >>
    /\ UNCHANGED dispatch


(***************************************************************************)
(* Station URLs an authentication response may announce, and the outcomes  *)
(* Connection.handlePacket may have on a packet.                           *)
(***************************************************************************)
StationURLs ==
    {[address |-> AuthServer.ip, port |-> AuthServer.port],
     [address |-> SecureServer.ip, port |-> SecureServer.port]}

\* Only a DATA packet with a payload carries application data: a fragment
\* with a nonzero id is buffered, fragment 0 completes a message.
outcomes(pkt) ==
    IF pkt.type = DATA_PACKET /\ pkt.payloadSize > 0
    THEN IF pkt.fragmentId # 0
         THEN {[eff |-> "fragment", url |-> NoURL]}
         ELSE {[eff |-> "data", url |-> NoURL]} \cup
              {[eff |-> "auth", url |-> u] : u \in StationURLs}
    ELSE {[eff |-> "none", url |-> NoURL]}

\* connection.handlePacket(packet)
Handle ==
    /\ pc = "handle"
    /\ pc' = "promote"
    /\ \E o \in outcomes(packet) :
          /\ heap' = [heap EXCEPT ![connection] =
                         connectionHandlePacket(@, packet, o.eff, o.url)]
          /\ packet' = [packet EXCEPT
                          !.message = rmcMessageOf(heap[connection], packet, o.eff)]
    /\ UNCHANGED << connections, events, nframes, frame, udpPacket, offset,
                    discriminator, connection, newConnection >>
    /\ UNCHANGED dispatch

(***************************************************************************)
(* Secure-server promotion.                                                *)
(***************************************************************************)
\* The secure connection created under the discriminator of its source.
secureConnectionOf_sourceDiscriminator(conn, secureDiscriminator) ==
    [setRC4Key(newConnectionRecord(conn.discriminator), conn.sessionKey) EXCEPT
        !.accessKey = conn.accessKey,
        !.accessKeySum = conn.accessKeySum,
        !.signatureKey = conn.signatureKey,
        !.sessionKey = conn.sessionKey,
        !.prudpVersion = conn.prudpVersion,
        !.title = conn.title,
        !.isSecureServer = TRUE,
        !.clientAddress = conn.clientAddress,
        !.serverAddress = secureDiscriminator]

\* The secure connection with the session key left out of the copy.
secureConnectionOf_noSessionKey(conn, secureDiscriminator) ==
    [setRC4Key(newConnectionRecord(secureDiscriminator), conn.sessionKey) EXCEPT
        !.accessKey = conn.accessKey,
        !.accessKeySum = conn.accessKeySum,
        !.signatureKey = conn.signatureKey,
        !.prudpVersion = conn.prudpVersion,
        !.title = conn.title,
        !.isSecureServer = TRUE,
        !.clientAddress = conn.clientAddress,
        !.serverAddress = secureDiscriminator]

\* "Secure server on different address, make a new connection"
secureConnectionOf(conn, secureDiscriminator) ==
    [setRC4Key(newConnectionRecord(secureDiscriminator), conn.sessionKey) EXCEPT
        !.accessKey = conn.accessKey,
        !.accessKeySum = conn.accessKeySum,
        !.signatureKey = conn.signatureKey,
        !.sessionKey = conn.sessionKey,
        !.prudpVersion = conn.prudpVersion,
        !.title = conn.title,
        !.isSecureServer = TRUE,
        !.clientAddress = conn.clientAddress,
        !.serverAddress = secureDiscriminator]

\* The in-place promotion without the call of setRC4Key.
promoteInPlace_noReseed(conn) == [conn EXCEPT !.isSecureServer = TRUE]

\* "Secure server is at the same address, just update key"
promoteInPlace(conn) ==
    setRC4Key([conn EXCEPT !.isSecureServer = TRUE], conn.sessionKey)

\* The promotion is pending on conn.
promotionPending(conn) ==
    conn.secureServerStationURL # NoURL /\ conn.checkForSecureServer

secureDiscriminatorOf(conn) ==
    addr(conn.secureServerStationURL.address, conn.secureServerStationURL.port)

\* The flag cleared and the connection marked as the secure one.
cleared_markedSecure(conn) ==
    [conn EXCEPT !.checkForSecureServer = FALSE, !.isSecureServer = TRUE]

\* The flag left as Connection.handlePacket set it.
cleared_kept(conn) == conn

\* connection.checkForSecureServer = false
cleared(conn) == [conn EXCEPT !.checkForSecureServer = FALSE]

Promote ==
    /\ pc = "promote"
    /\ pc' = "emit"
    /\ LET conn == heap[connection]
           secureDiscriminator == secureDiscriminatorOf(conn)
       IN  IF promotionPending(conn)
           THEN IF conn.discriminator # secureDiscriminator
                THEN /\ heap' = Append(
                            [heap EXCEPT ![connection] = cleared(@)],
                            secureConnectionOf(conn, secureDiscriminator))
                     /\ connections' = pushed(connections, Len(heap) + 1)
                ELSE /\ heap' = [heap EXCEPT ![connection] =
                            cleared(promoteInPlace(@))]
                     /\ connections' = connections
           ELSE UNCHANGED << heap, connections >>
    /\ UNCHANGED << events, nframes, frame, locals >>
    /\ UNCHANGED dispatch

\* this.emit('packet', packet), and the loop goes round.
EmitPacket ==
    /\ pc = "emit"
    /\ pc' = "loop"
    /\ events' = Append(events, packetEvent(connection, packet))
    /\ packet' = NoPacket
    /\ UNCHANGED << connections, heap, nframes, frame, udpPacket, offset,
                    discriminator, connection, newConnection >>
    /\ UNCHANGED dispatch

\* A terminal notification that lists the announced connections only.
connectionsEvent_announcedOnly(conns) ==
    [type |-> "connections", connection |-> 0, version |-> -1, start |-> 0,
     length |-> 0, frame |-> nframes,
     registry |-> SelectSeq(conns, LAMBDA id :
                     \E i \in 1..Len(events) :
                        events[i].type = "connection" /\ events[i].connection = id)]

\* The argument list of this.emit('connections', this.connections).
connectionsEvent(conns) ==
    [type |-> "connections", connection |-> 0, version |-> -1, start |-> 0,
     length |-> 0, frame |-> nframes, registry |-> conns]

\* The capture source is exhausted: the 'close' handler of the pcapng stream,
\* or the 'end' handler of the pcap parser.  No frame follows.
EndOfCapture ==
    /\ pc = "idle"
    /\ pc' = "ended"
    /\ events' = Append(events, connectionsEvent(connections))
    /\ UNCHANGED << connections, heap, nframes, frame, locals, dispatch >>

Next ==
    \/ \E n \in LifecycleFrameNumbers : ReceiveFrame(n)
    \/ Carve
    \/ Register
    \/ Handle
    \/ Promote
    \/ EmitPacket
    \/ EndOfCapture

Spec == Init /\ [][Next]_vars

NextFraming ==
    \/ \E n \in FramingFrameNumbers : ReceiveFrame(n)
    \/ Carve
    \/ Register
    \/ Handle
    \/ Promote
    \/ EmitPacket
    \/ EndOfCapture

SpecFraming == Init /\ [][NextFraming]_vars

NextFragments ==
    \/ \E n \in FragmentFrameNumbers : ReceiveFrame(n)
    \/ Carve
    \/ Register
    \/ Handle
    \/ Promote
    \/ EmitPacket
    \/ EndOfCapture

SpecFragments == Init /\ [][NextFragments]_vars

(***************************************************************************)
(* Calls of ServiceItem.handlePacket, one per behaviour, on a packet whose *)
(* message has any method id up to MaxMethodId and either direction.       *)
(***************************************************************************)
InitDispatch ==
    /\ connections = << >>
    /\ heap = << >>
    /\ events = << >>
    /\ pc = "idle"
    /\ nframes = 0
    /\ frame = 0
    /\ udpPacket = NoUdp
    /\ offset = 0
    /\ discriminator = NoAddr
    /\ connection = 0
    /\ newConnection = FALSE
    /\ packet = NoPacket
    /\ \E m \in 0..MaxMethodId, r \in BOOLEAN :
          dispatch = [pc |-> "call",
                      packet |-> [rmcMessage |-> [methodId |-> m, isRequest |-> r],
                                  rmcData |-> NoData],
                      console |-> << >>]

\* static handlePacket(packet)
ServiceItemHandlePacket ==
    /\ dispatch.pc = "call"
    /\ LET methodId == dispatch.packet.rmcMessage.methodId
           rmcMessage == dispatch.packet.rmcMessage
       IN  IF methodId \notin DOMAIN Handlers
           THEN dispatch' = [dispatch EXCEPT
                               !.pc = "returned",
                               !.console = Append(@,
                                   [text |-> "Unknown Service Item method ID",
                                    methodId |-> methodId])]
           ELSE dispatch' = [dispatch EXCEPT
                               !.pc = "returned",
                               !.packet.rmcData =
                                   [body |-> handle(Handlers[methodId],
                                                    rmcMessage.isRequest)]]
    /\ UNCHANGED << connections, heap, events, pc, nframes, frame, locals >>

NextDispatch == ServiceItemHandlePacket

SpecDispatch == InitDispatch /\ [][NextDispatch]_vars

(***************************************************************************)
(* The claims.                                                             *)
(***************************************************************************)
packetEventsOf(id) ==
    {i \in 1..Len(events) : events[i].type = "packet" /\ events[i].connection = id}

\* C1: a flow that restarts from a fresh handshake on a discriminator that
\* is already registered gets a new Connection record: a SYN sent by the
\* client is never handled by a Connection that has handled packets before.
C1_ReconnectYieldsNewConnection ==
    (pc = "emit" /\ packet.type = SYN_PACKET /\ packet.toServer)
        => packetEventsOf(connection) = {}

\* The frame of the reverse direction of the same flow.
swapped(udp) ==
    [udp EXCEPT !.source = udp.destination, !.destination = udp.source,
                !.sourcePort = udp.destinationPort,
                !.destinationPort = udp.sourcePort]

\* C2: discriminator resolution is symmetric: the frame being processed and
\* the frame of the opposite direction of its flow resolve to the same
\* discriminator, whatever addresses the two ends have.
C2_ResolutionSymmetric ==
    pc = "loop" => discriminator = resolve(swapped(udpPacket)).discriminator

\* A promotion to a different address is about to be evaluated.
PromotionToOtherAddress ==
    /\ pc = "promote"
    /\ promotionPending(heap[connection])
    /\ secureDiscriminatorOf(heap[connection]) # heap[connection].discriminator

\* C3: a promotion to a different address appends exactly one new Connection
\* to the registry, with the station URL's address:port as discriminator,
\* isSecureServer set, and accessKey, accessKeySum, signatureKey, sessionKey,
\* prudpVersion and title equal to those of the source connection.
C3_PromotionCreatesSecureConnection ==
    [][PromotionToOtherAddress =>
        /\ Len(connections') = Len(connections) + 1
        /\ SubSeq(connections', 1, Len(connections)) = connections
        /\ LET id == connections'[Len(connections')]
               src == heap[connection]
           IN  /\ id \notin DOMAIN heap
               /\ id \in DOMAIN heap'
               /\ heap'[id].discriminator = secureDiscriminatorOf(src)
               /\ heap'[id].isSecureServer
               /\ heap'[id].accessKey = src.accessKey
               /\ heap'[id].accessKeySum = src.accessKeySum
               /\ heap'[id].signatureKey = src.signatureKey
               /\ heap'[id].sessionKey = src.sessionKey
               /\ heap'[id].prudpVersion = src.prudpVersion
               /\ heap'[id].title = src.title]_vars

\* A promotion to a different address has just happened, from a connection
\* that holds negotiated key material.
C3_Witness ==
    /\ pc = "emit"
    /\ Len(connections) >= 2
    /\ LET id == connections[Len(connections)]
           src == heap[connection]
       IN  /\ id # connection
           /\ src.secureServerStationURL # NoURL
           /\ ~src.checkForSecureServer
           /\ src.sessionKey = "sk"
           /\ heap[id].isSecureServer
           /\ heap[id].discriminator = secureDiscriminatorOf(src)
           /\ heap[id].discriminator # src.discriminator
           /\ packetEventsOf(id) = {}

\* A promotion at the connection's own address is about to be evaluated.
PromotionInPlace ==
    /\ pc = "promote"
    /\ promotionPending(heap[connection])
    /\ secureDiscriminatorOf(heap[connection]) = heap[connection].discriminator

\* C4: a promotion at the same address leaves the length of the registry
\* unchanged, sets isSecureServer on the current connection and re-seeds its
\* cipher states from its current session key.
C4_PromotionInPlace ==
    [][PromotionInPlace =>
        /\ Len(connections') = Len(connections)
        /\ connections' = connections
        /\ Len(heap') = Len(heap)
        /\ heap'[connection].isSecureServer
        /\ heap'[connection].sessionKey = heap[connection].sessionKey
        /\ heap'[connection].rc4ClientState = seeded(heap[connection].sessionKey)
        /\ heap'[connection].rc4ServerState = seeded(heap[connection].sessionKey)]_vars

\* An in-place promotion has just happened on a connection with a session key.
C4_Witness ==
    /\ pc = "emit"
    /\ LET conn == heap[connection]
       IN  /\ conn.isSecureServer
           /\ conn.secureServerStationURL # NoURL
           /\ ~conn.checkForSecureServer
           /\ secureDiscriminatorOf(conn) = conn.discriminator
           /\ conn.sessionKey = "sk"
           /\ conn.rc4ClientState = seeded("sk")

(***************************************************************************)
(* Framing claims.  What a payload holds at an offset is stated here on    *)
(* the bytes, independently of carve.                                      *)
(***************************************************************************)
\* The frame delivered last was extracted as a UDP datagram.
extracted == frame # 0 /\ parseUDPPacket(Capture[frame]).kind = "udp"

byteAt(p, o) == p[o + 1]

\* The 2 bytes of p at offset o are the v1 magic / one of the two markers.
v1MagicAt(p, o) ==
    o + 2 <= Len(p) /\ byteAt(p, o) = 234 /\ byteAt(p, o + 1) = 208

markerAt(p, o) ==
    /\ o + 2 <= Len(p)
    /\ \/ byteAt(p, o) = 175 /\ byteAt(p, o + 1) = 161
       \/ byteAt(p, o) = 161 /\ byteAt(p, o + 1) = 175

\* p passes the v1 magic and virtual-port checks at offset o.
v1HeaderAt(p, o) == v1MagicAt(p, o) /\ markerAt(p, o + 6)

\* The length a v1 header at offset o declares.
declaredLength(p, o) ==
    2 + 12 + 16 + byteAt(p, o + 3) + byteAt(p, o + 4) + 256 * byteAt(p, o + 5)

\* A whole valid v1 packet lies at offset o of p.
validV1At(p, o) == v1HeaderAt(p, o) /\ o + declaredLength(p, o) <= Len(p)

\* The span at offset o passes validation: a v1 header, or a v0 marker.
passesValidationAt(p, o) == v1HeaderAt(p, o) \/ markerAt(p, o)

\* The 'packet' notifications of the frame delivered last, in order.
packetEventsOfFrame ==
    SelectSeq(events, LAMBDA e : e.type = "packet" /\ e.frame = nframes)

connectionEventsOf(id) ==
    {i \in 1..Len(events) : events[i].type = "connection" /\ events[i].connection = id}

\* C5: a frame for an unseen discriminator whose first span fails validation
\* registers nothing and announces nothing: neither the extraction of the
\* frame nor the framing of its first span changes the registry or emits a
\* notification, and handlePacket ends on that span.
C5_NoPhantomConnection ==
    [][/\ (nframes' # nframes /\ pc' = "loop" /\ newConnection'
             /\ ~passesValidationAt(payload', 0))
          => (connections' = connections /\ events' = events
                /\ ~registered(connection')
                /\ connectionEventsOf(connection') = {})
       /\ (pc = "loop" /\ offset = 0 /\ newConnection
             /\ ~passesValidationAt(payload, 0))
          => (pc' \in {"idle", "threw"}
                /\ connections' = connections /\ events' = events)]_vars

\* A frame of an unseen flow that starts with the v1 magic but not with a
\* marker behind the sizes is being framed.
C5_Witness ==
    /\ pc = "loop"
    /\ extracted
    /\ newConnection
    /\ v1MagicAt(payload, 0)
    /\ Len(payload) >= 8
    /\ ~markerAt(payload, 6)

\* The payload of the frame delivered last is two valid v1 packets back to
\* back and nothing else.
twoV1Packets ==
    /\ extracted
    /\ validV1At(payload, 0)
    /\ validV1At(payload, declaredLength(payload, 0))
    /\ declaredLength(payload, 0)
         + declaredLength(payload, declaredLength(payload, 0)) = Len(payload)

\* C6: a payload of two concatenated valid v1 packets yields exactly two
\* 'packet' notifications, in payload order: the first span starts at 0, the
\* second where the first ends, and each has its declared length.
C6_TwoPacketsTwoSpans ==
    (pc = "idle" /\ twoV1Packets)
      => LET pk == packetEventsOfFrame
             l1 == declaredLength(payload, 0)
         IN  /\ Len(pk) = 2
             /\ pk[1].version = 1 /\ pk[1].start = 0 /\ pk[1].length = l1
             /\ pk[2].version = 1 /\ pk[2].start = l1
             /\ pk[2].length = declaredLength(payload, l1)
             /\ pk[1].start + pk[1].length = pk[2].start
             /\ pk[2].start + pk[2].length = Len(payload)

\* A frame of two v1 packets of different lengths has been processed.
C6_Witness ==
    /\ pc = "idle"
    /\ twoV1Packets
    /\ declaredLength(payload, 0) # declaredLength(payload, declaredLength(payload, 0))
    /\ Len(packetEventsOfFrame) = 2

\* C7: every v1 span handed to the decoder starts at the packet's magic and
\* is exactly as long as the packet's own header declares.
C7_SpanHasDeclaredLength ==
    (pc = "register" /\ packet.version = 1)
      => /\ v1HeaderAt(payload, packet.start)
         /\ packet.length = declaredLength(payload, packet.start)

\* The bytes at offsets 17..19 of the frame are the XID marker.
xidAt17(f) == Len(f) >= 20 /\ f[18] = 129 /\ f[19] = 1 /\ f[20] = 0

\* C8: a frame with the XID marker at offsets 17..19 is rejected by the
\* frame extractor whatever else it holds: handlePacket returns at once, no
\* notification is emitted and the registry and its connections are as before.
C8_XidFrameRejected ==
    [][(nframes' # nframes /\ xidAt17(Capture[frame']))
        => /\ pc' = "idle"
           /\ events' = events
           /\ connections' = connections
           /\ heap' = heap]_vars

\* An XID frame that is otherwise a UDP frame with a valid v1 packet has
\* been delivered.
C8_Witness ==
    /\ frame # 0
    /\ xidAt17(Capture[frame])
    /\ parseHeaders(Capture[frame]).kind = "udp"
    /\ validV1At(parseHeaders(Capture[frame]).payload, 0)
    /\ pc = "idle"

\* C9: the moment a span fails validation the rest of the datagram is
\* dropped and nothing else happens: handlePacket returns, the notifications
\* emitted so far stay as they are, the registry is unchanged, and the run
\* goes on with the next frame.
C9_FailedSpanEndsDatagramOnly ==
    [][(pc = "loop" /\ hasDataLeft(payload, offset)
          /\ ~passesValidationAt(payload, offset))
        => /\ pc' = "idle"
           /\ events' = events
           /\ connections' = connections]_vars

\* C10: malformed input is never surfaced as an error: no exception leaves
\* handlePacket.
C10_NeverThrows == pc # "threw"

(***************************************************************************)
(* Lookup and direction claims.                                            *)
(***************************************************************************)
\* The registry indices that hold a connection with discriminator d.
indicesOf(d) == {i \in 1..Len(connections) : heap[connections[i]].discriminator = d}

\* C11: a frame whose discriminator is registered is handled by the
\* connection at the highest registry index with that discriminator, and no
\* step of its processing changes any other connection with that
\* discriminator.
C11_LookupTakesLatest ==
    [][/\ (nframes' # nframes /\ pc' = "loop" /\ ~newConnection')
          => /\ indicesOf(discriminator') # {}
             /\ \A i \in indicesOf(discriminator') :
                   \E j \in indicesOf(discriminator') :
                      j >= i /\ connections[j] = connection'
       /\ (pc \in {"loop", "register", "handle", "promote", "emit"})
          => \A id \in DOMAIN heap :
                (id # connection /\ heap[id].discriminator = discriminator)
                   => heap'[id] = heap[id]]_vars

\* A packet has been handled by the newest of two different connections that
\* share its discriminator, and the handling changed that connection.
C11_Witness ==
    /\ pc = "emit"
    /\ \E i, j \in indicesOf(discriminator) :
          /\ i < j
          /\ connections[i] # connections[j]
          /\ connections[j] = connection
          /\ packetEventsOf(connections[i]) # {}
          /\ heap[connection].rc4ClientState.used

\* The addresses of the frame delivered last, read off its bytes.
frameSource == addr(SubSeq(Capture[frame], 27, 30),
                    256 * Capture[frame][35] + Capture[frame][36])
frameDestination == addr(SubSeq(Capture[frame], 31, 34),
                         256 * Capture[frame][37] + Capture[frame][38])

\* C12: for every extracted datagram, a private source address makes the
\* destination ip:port the discriminator and the source ip:port the client
\* address; any other source address makes the source ip:port the
\* discriminator and the destination ip:port the client address.  A
\* connection created for the frame has that discriminator, and its
\* serverAddress equals it.
C12_DirectionInference ==
    (pc = "loop" /\ offset = 0)
      => LET server == IF isPrivateIP(frameSource.ip)
                       THEN frameDestination ELSE frameSource
             client == IF isPrivateIP(frameSource.ip)
                       THEN frameSource ELSE frameDestination
         IN  /\ discriminator = server
             /\ heap[connection].discriminator = server
             /\ newConnection
                  => /\ heap[connection].serverAddress = server
                     /\ heap[connection].clientAddress = client
                     /\ heap[connection].serverAddress
                          = heap[connection].discriminator

\* A connection has been created for a frame sent by a public address.
C12_Witness ==
    /\ pc = "loop"
    /\ offset = 0
    /\ newConnection
    /\ ~isPrivateIP(frameSource.ip)
    /\ heap[connection].discriminator = frameSource
    /\ heap[connection].clientAddress = frameDestination

\* C13: a v0 packet consumes the rest of the payload: a datagram that begins
\* with a v0 marker yields exactly one 'packet' notification, for a v0
\* packet that spans the payload from the marker to the end, and every v0
\* span reaches from its marker to the end of the payload.
C13_V0ConsumesPayload ==
    (pc = "idle" /\ extracted)
      => LET pk == packetEventsOfFrame
         IN  /\ markerAt(payload, 0)
                  => /\ Len(pk) = 1
                     /\ pk[1].version = 0
                     /\ pk[1].start = 0
                     /\ pk[1].length = Len(payload)
             /\ \A i \in 1..Len(pk) :
                   pk[i].version = 0
                     => /\ markerAt(payload, pk[i].start)
                        /\ pk[i].start + pk[i].length = Len(payload)

(***************************************************************************)
(* Notification order and registry claims.                                 *)
(***************************************************************************)
\* C14: every 'packet' notification carries a Connection for which a
\* 'connection' notification was emitted earlier, connections created by
\* promotion included.
C14_PacketAfterConnection ==
    \A i \in 1..Len(events) :
       events[i].type = "packet"
         => \E j \in 1..(i - 1) :
               /\ events[j].type = "connection"
               /\ events[j].connection = events[i].connection

\* C18: once the promotion step of a packet is over, no connection has both
\* checkForSecureServer set and a secureServerStationURL stored: the flag is
\* cleared whichever branch the promotion took, so one setting by the
\* connection triggers at most one promotion.
C18_CheckClearedAfterPromotion ==
    pc # "promote"
      => \A id \in DOMAIN heap :
            ~(heap[id].checkForSecureServer
                /\ heap[id].secureServerStationURL # NoURL)

\* A packet whose handling stored a station URL has been through the
\* promotion step, in the branch that creates a connection.
C18_Witness ==
    /\ pc = "emit"
    /\ heap[connection].secureServerStationURL # NoURL
    /\ ~heap[connection].checkForSecureServer
    /\ heap[connection].secureServerStationURL.address
         # heap[connection].discriminator.ip
    /\ Len(connections) > 1

\* C19: the registry is append-only: in every step the registry before the
\* step is a prefix of the registry after it.
C19_RegistryAppendOnly ==
    [][/\ Len(connections) <= Len(connections')
       /\ SubSeq(connections', 1, Len(connections)) = connections]_vars

\* The registry has grown twice, once by the registration of a new flow and
\* once by a promotion.
C19_Witness ==
    /\ Len(connections) >= 2
    /\ connectionEventsOf(connections[1]) # {}
    /\ \E i \in 2..Len(connections) : connectionEventsOf(connections[i]) = {}

\* C20: each Connection is registered at most once and announced at most
\* once, also when the first datagram of a new flow carries several valid
\* packets.
C20_RegisteredAndAnnouncedOnce ==
    /\ \A i, j \in 1..Len(connections) :
          connections[i] = connections[j] => i = j
    /\ \A id \in DOMAIN heap : Cardinality(connectionEventsOf(id)) <= 1

(***************************************************************************)
(* Dispatch claim.                                                         *)
(***************************************************************************)
\* C16: a call of ServiceItem.handlePacket returns normally whatever the
\* method id.  For an id outside 0x01..0x16 it writes one line that reports
\* the unknown id and leaves packet.rmcData unset; for an id in 0x01..0x16
\* it writes nothing and sets packet.rmcData.body to the decoding by the
\* method's request class when the message is a request and by its response
\* class otherwise.
C16_DispatchByMethodId ==
    /\ dispatch.pc \in {"idle", "call", "returned"}
    /\ dispatch.pc = "returned"
         => LET m == dispatch.packet.rmcMessage.methodId
                r == dispatch.packet.rmcMessage.isRequest
            IN  IF m >= 1 /\ m <= 22
                THEN /\ dispatch.console = << >>
                     /\ dispatch.packet.rmcData.body.module
                          = IF r THEN "Requests" ELSE "Responses"
                     /\ dispatch.packet.rmcData.body.class
                          = MethodNames[m] \o (IF r THEN "Request" ELSE "Response")
                ELSE /\ Len(dispatch.console) = 1
                     /\ dispatch.console[1].methodId = m
                     /\ dispatch.packet.rmcData = NoData

\* A request with a registered method id has been dispatched.
C16_Witness ==
    /\ dispatch.pc = "returned"
    /\ dispatch.packet.rmcMessage.methodId = 8
    /\ dispatch.packet.rmcMessage.isRequest
    /\ dispatch.packet.rmcData.body
         = [module |-> "Requests", class |-> "GetBalanceRequestRequest"]

(***************************************************************************)
(* End of the capture.                                                     *)
(***************************************************************************)
connectionsEvents == {i \in 1..Len(events) : events[i].type = "connections"}

\* C17: the 'connections' notification is emitted exactly once when the
\* capture is exhausted and never before; it is the last notification, no
\* 'packet' or 'connection' notification follows it, and it carries the
\* whole registry, connections created by promotion included.
C17_TerminalNotification ==
    /\ Cardinality(connectionsEvents) = (IF pc = "ended" THEN 1 ELSE 0)
    /\ \A i \in connectionsEvents :
          /\ i = Len(events)
          /\ events[i].frame = nframes
          /\ events[i].registry = connections

\* The capture has ended on a registry that holds a connection created by
\* promotion next to an announced one.
C17_Witness ==
    /\ pc = "ended"
    /\ nframes > 0
    /\ Len(connections) >= 2
    /\ \E i \in 1..Len(connections) : connectionEventsOf(connections[i]) = {}
    /\ events[Len(events)].registry = connections

(***************************************************************************)
(* Fragment reassembly.                                                    *)
(***************************************************************************)
\* The 'packet' notifications of connection id in direction d, in order.
packetsOf(id, d) ==
    SelectSeq(events, LAMBDA e :
        e.type = "packet" /\ e.connection = id /\ e.toServer = d)

\* C15: when three packets of one connection and direction arrive in a row
\* with fragment ids 2, 1, 0, the 'packet' notifications of the first two
\* carry no message and that of the third carries one message, assembled
\* from at least the three payloads; a packet with a nonzero fragment id
\* never carries a message.
C15_FragmentsReassembleOnTerminal ==
    /\ \A i \in 1..Len(events) :
          (events[i].type = "packet" /\ events[i].fragmentId # 0)
             => events[i].message = 0
    /\ \A id \in DOMAIN heap, d \in BOOLEAN :
          LET pk == packetsOf(id, d)
          IN  \A k \in 1..(Len(pk) - 2) :
                 (pk[k].fragmentId = 2 /\ pk[k + 1].fragmentId = 1
                    /\ pk[k + 2].fragmentId = 0)
                   => /\ pk[k].message = 0
                      /\ pk[k + 1].message = 0
                      /\ pk[k + 2].message >= 3
                      /\ k = 1 => pk[k + 2].message = 3

\* The fragments 2, 1, 0 of a message to the server have arrived in this
\* order on one connection, and the third notification carries the message.
C15_Witness ==
    \E id \in DOMAIN heap :
       LET pk == packetsOf(id, TRUE)
       IN  /\ Len(pk) = 3
           /\ pk[1].fragmentId = 2 /\ pk[2].fragmentId = 1 /\ pk[3].fragmentId = 0
           /\ pk[3].message = 3
           /\ heap[id].clientFragments = 0

(***************************************************************************)
(* Termination of the framing loop.                                        *)
(***************************************************************************)
\* C21: the framing loop ends on every payload: each iteration either
\* leaves handlePacket or carves a packet and moves the stream offset
\* strictly forward, no other step of the iteration moves the offset, an
\* iteration entered at or past the end of the payload leaves, and the
\* packets carved from a datagram never outnumber its bytes.
C21_FramingLoopTerminates ==
    [][/\ pc = "loop"
          => \/ pc' \in {"idle", "threw"}
             \/ /\ pc' = "register"
                /\ offset < Len(payload)
                /\ offset' > offset
       /\ pc \in {"register", "handle", "promote", "emit"}
          => /\ offset' = offset
             /\ frame' = frame
       /\ (pc = "emit" /\ pc' = "loop")
          => Len(SelectSeq(events', LAMBDA e :
                    e.type = "packet" /\ e.frame = nframes)) <= Len(payload)]_vars

\* The loop has gone round twice on one datagram and stands at the end of
\* the payload.
C21_Witness ==
    /\ pc = "loop"
    /\ Len(packetEventsOfFrame) = 2
    /\ offset >= Len(payload)
    /\ Len(payload) > 0

(***************************************************************************)
(* Promotion to another address: its effect and the frames after it.       *)
(***************************************************************************)
\* C22: a promotion to a different address leaves the source connection as
\* it was but for checkForSecureServer, which it clears: discriminator,
\* clientAddress, serverAddress, accessKey, accessKeySum, signatureKey,
\* sessionKey, prudpVersion and isSecureServer keep their values, as does
\* every other field, and every other connection that exists is unchanged.
C22_PromotionLeavesSourceAlone ==
    [][(pc = "promote" /\ PromotionToOtherAddress)
         => LET before == heap[connection]
                after == heap'[connection]
            IN  /\ ~after.checkForSecureServer
                /\ after.discriminator = before.discriminator
                /\ after.clientAddress = before.clientAddress
                /\ after.serverAddress = before.serverAddress
                /\ after.accessKey = before.accessKey
                /\ after.accessKeySum = before.accessKeySum
                /\ after.signatureKey = before.signatureKey
                /\ after.sessionKey = before.sessionKey
                /\ after.prudpVersion = before.prudpVersion
                /\ after.isSecureServer = before.isSecureServer
                /\ after = [before EXCEPT !.checkForSecureServer = FALSE]
                /\ \A id \in DOMAIN heap :
                      id # connection => heap'[id] = heap[id]]_vars

\* A promotion to another address has been made from a connection that
\* holds key material, in a registry that held a second connection.
C22_Witness ==
    /\ pc = "emit"
    /\ Len(connections) >= 3
    /\ heap[connection].secureServerStationURL # NoURL
    /\ secureDiscriminatorOf(heap[connection]) # heap[connection].discriminator
    /\ ~heap[connection].checkForSecureServer
    /\ ~heap[connection].isSecureServer
    /\ heap[connection].sessionKey = "sk"
    /\ heap[connections[Len(connections)]].discriminator
         = secureDiscriminatorOf(heap[connection])

\* Connection id is registered and its last promotion went to another
\* address: it holds a station URL for another address and its flag has
\* been cleared.
promotedAway(id) ==
    /\ registered(id)
    /\ heap[id].secureServerStationURL # NoURL
    /\ ~heap[id].checkForSecureServer
    /\ secureDiscriminatorOf(heap[id]) # heap[id].discriminator

\* The highest registry index that holds connection id.
lastIndexOf(id) ==
    CHOOSE i \in 1..Len(connections) :
       /\ connections[i] = id
       /\ \A j \in 1..Len(connections) : connections[j] = id => j <= i

\* The frame being received is handled by a secure connection that was
\* registered after connection a under the secure address of a, the newest
\* connection with that discriminator, and creates no connection.
handledByPromotedOf(a) ==
    /\ ~newConnection'
    /\ registered(connection')
    /\ heap[connection'].discriminator = secureDiscriminatorOf(heap[a])
    /\ heap[connection'].isSecureServer
    /\ lastIndexOf(connection') > lastIndexOf(a)
    /\ \A i \in indicesOf(discriminator') : i <= lastIndexOf(connection')

\* C23 as stated: after a promotion to another address, a later frame on the
\* secure address is handled by the promoted connection, or by a newer one
\* with that discriminator, and creates no connection; a later frame on the
\* original discriminator is handled by the original connection.
C23_FramesAfterPromotion ==
    [][(nframes' # nframes /\ pc' = "loop")
         => \A a \in DOMAIN heap :
               promotedAway(a)
                 => /\ discriminator' = secureDiscriminatorOf(heap[a])
                         => handledByPromotedOf(a)
                    /\ discriminator' = heap[a].discriminator
                         => ~newConnection' /\ connection' = a]_vars

\* C23, amended: after a promotion to another address, a later frame on the
\* secure address is handled by the promoted connection, or by a newer one
\* with that discriminator, and creates no connection; a later frame on the
\* original discriminator creates no connection either and is handled by the
\* original connection until a newer connection with that discriminator is
\* registered, and from then on by the newest of them.
C23_FramesAfterPromotionLatest ==
    [][(nframes' # nframes /\ pc' = "loop")
         => \A a \in DOMAIN heap :
               promotedAway(a)
                 => /\ discriminator' = secureDiscriminatorOf(heap[a])
                         => handledByPromotedOf(a)
                    /\ discriminator' = heap[a].discriminator
                         => /\ ~newConnection'
                            /\ registered(connection')
                            /\ heap[connection'].discriminator = discriminator'
                            /\ lastIndexOf(connection') >= lastIndexOf(a)
                            /\ \A i \in indicesOf(discriminator') :
                                  i <= lastIndexOf(connection')
                            /\ (\A i \in indicesOf(discriminator') :
                                   i <= lastIndexOf(a))
                                 => connection' = a]_vars

\* A frame on the secure address of an earlier promotion has been received:
\* it is handled by the promoted connection, not by the source and not by a
\* new connection.
C23_Witness ==
    /\ pc = "loop"
    /\ offset = 0
    /\ ~newConnection
    /\ heap[connection].isSecureServer
    /\ \E a \in DOMAIN heap :
          /\ promotedAway(a)
          /\ a # connection
          /\ discriminator = secureDiscriminatorOf(heap[a])
          /\ heap[connection].discriminator = discriminator
          /\ lastIndexOf(connection) > lastIndexOf(a)

=============================================================================
